---- MODULE Spec2Model ----
(***************************************************************************)
(* Person-page parsers of imdb/parser/http/personParser.py.                *)
(*                                                                         *)
(* The rule tables, the transforms and the postprocess_data hooks are      *)
(* translated from personParser.py.  The rule evaluator (piculet's Path,   *)
(* Rule, Rules) and DOMParserBase.parse live in modules that are not part  *)
(* of the source tree at hand; they are modelled from sections 4.1-4.3 and *)
(* 7 of the specification.                                                 *)
(*                                                                         *)
(* Text is a sequence of tokens.  A token is one special character         *)
(* (" ", "\n", ":", "(", ")", "[", "-") or an atomic run of other          *)
(* characters, so that strip, split and replace act on the characters they *)
(* act on in Python.                                                       *)
(***************************************************************************)
EXTENDS Integers, Sequences, FiniteSets, TLC

\* One parse call at a time, the parser taken from the dispatch table.
VARIABLES pc, parser, doc, data, result, raised

\* One parser instance used for call after call and by several callers at
\* once: the instance, the frame of each call, and an earlier call remembered.
VARIABLES self, calls, earlier

shared == <<self, calls, earlier>>

vars == <<pc, parser, doc, data, result, raised, self, calls, earlier>>

\* Largest number of nodes a node-set query (foreach) matches in a document.
MaxNodes == 2

(***************************************************************************)
(* Values of a result mapping: strings, integers, sequences, mappings,     *)
(* domain objects, None.  Err stands for a raised exception.               *)
(***************************************************************************)
None == [t |-> "none"]

Err == [t |-> "err"]

Str(s) == [t |-> "str", s |-> s]

IntV(n) == [t |-> "int", n |-> n]

List(xs) == [t |-> "list", xs |-> xs]

Map(m) == [t |-> "map", m |-> m]

Obj(kind, m) == [t |-> "obj", kind |-> kind, m |-> m]

EmptyDict == <<>>

EmptyMap == Map(EmptyDict)

IsStr(v) == v.t = "str"

IsMap(v) == v.t = "map"

IsList(v) == v.t = "list"

\* Python truthiness of a value.
Truthy(v) ==
    CASE v.t = "none" -> FALSE
      [] v.t = "str" -> v.s # <<>>
      [] v.t = "list" -> v.xs # <<>>
      [] v.t = "map" -> DOMAIN v.m # {}
      [] v.t = "int" -> v.n # 0
      [] OTHER -> TRUE

\* dict.get(key): None when the key is missing.
Get(m, k) == IF k \in DOMAIN m THEN m[k] ELSE None

\* a or b
Or(a, b) == IF Truthy(a) THEN a ELSE b

\* dict.update(other): the entries of other win.
Update(m, other) == other @@ m

\* del d[k] / d.pop(k)
Del(m, k) == [x \in DOMAIN m \ {k} |-> m[x]]

(***************************************************************************)
(* Text                                                                    *)
(***************************************************************************)
IsSpace(c) == c \in {" ", "\n"}

RECURSIVE LStrip(_)
LStrip(s) == IF s # <<>> /\ IsSpace(Head(s)) THEN LStrip(Tail(s)) ELSE s

RECURSIVE RStrip(_)
RStrip(s) ==
    IF s # <<>> /\ IsSpace(s[Len(s)]) THEN RStrip(SubSeq(s, 1, Len(s) - 1)) ELSE s

\* str.strip()
Strip(s) == RStrip(LStrip(s))

RECURSIVE LStripChar(_, _)
LStripChar(s, c) == IF s # <<>> /\ Head(s) = c THEN LStripChar(Tail(s), c) ELSE s

RECURSIVE RStripChar(_, _)
RStripChar(s, c) ==
    IF s # <<>> /\ s[Len(s)] = c THEN RStripChar(SubSeq(s, 1, Len(s) - 1), c) ELSE s

\* str.strip(c) for a single character c
StripChar(s, c) == RStripChar(LStripChar(s, c), c)

LowerTok(c) ==
    CASE c = "Actor" -> "actor"
      [] c = "Writer" -> "writer"
      [] c = "Drama" -> "drama"
      [] c = "Comedy" -> "comedy"
      [] OTHER -> c

\* str.lower()
Lower(s) == [i \in 1..Len(s) |-> LowerTok(s[i])]

RECURSIVE Join(_)
\* ''.join(texts)
Join(texts) == IF texts = <<>> THEN <<>> ELSE Head(texts) \o Join(Tail(texts))

\* Index of the first occurrence of token c in s, 0 when there is none.
Find(s, c) ==
    IF \E i \in 1..Len(s) : s[i] = c
    THEN CHOOSE i \in 1..Len(s) : s[i] = c /\ \A j \in 1..(i - 1) : s[j] # c
    ELSE 0

\* Index of the last occurrence of token c in s, 0 when there is none.
RFind(s, c) ==
    IF \E i \in 1..Len(s) : s[i] = c
    THEN CHOOSE i \in 1..Len(s) : s[i] = c /\ \A j \in (i + 1)..Len(s) : s[j] # c
    ELSE 0

\* s.split(c)[0] for a single-token separator c
Before(s, c) == IF Find(s, c) = 0 THEN s ELSE SubSeq(s, 1, Find(s, c) - 1)

RECURSIVE SplitDouble(_, _)
\* s.split('  '): the pieces of s between occurrences of two adjacent blanks,
\* scanned left to right; cur is the piece being read.
SplitDouble(s, cur) ==
    IF s = <<>> THEN <<Str(cur)>>
    ELSE IF Len(s) >= 2 /\ s[1] = " " /\ s[2] = " "
         THEN <<Str(cur)>> \o SplitDouble(SubSeq(s, 3, Len(s)), <<>>)
         ELSE SplitDouble(Tail(s), Append(cur, Head(s)))

RECURSIVE CollapseSpaces(_)
\* _re_spaces.sub(' ', s): every run of white space becomes one blank
CollapseSpaces(s) ==
    IF s = <<>> THEN <<>>
    ELSE IF IsSpace(Head(s))
         THEN <<" ">> \o CollapseSpaces(LStrip(s))
         ELSE <<Head(s)>> \o CollapseSpaces(Tail(s))

RECURSIVE ReplaceDash(_)
\* s.replace(' - ', '::')
ReplaceDash(s) ==
    IF s = <<>> THEN <<>>
    ELSE IF Len(s) >= 3 /\ s[1] = " " /\ s[2] = "-" /\ s[3] = " "
         THEN <<":", ":">> \o ReplaceDash(SubSeq(s, 4, Len(s)))
         ELSE <<Head(s)>> \o ReplaceDash(Tail(s))

\* s.replace('\n', ' ')
ReplaceNewline(s) == [i \in 1..Len(s) |-> IF s[i] = "\n" THEN " " ELSE s[i]]

(***************************************************************************)
(* Documents.  A document is the parsed tree of one page, described by     *)
(* what each query of the rule tables selects in it.  A node is named by   *)
(* its kind and its position among the nodes of that kind (and, for a      *)
(* nested node, the position of its parent).                               *)
(***************************************************************************)
Node(at, i, j) == [at |-> at, i |-> i, j |-> j]

Root == Node("root", 0, 0)

\* The nodes of one kind, in document order.
NodesOf(at, n, j) == [i \in 1..n |-> Node(at, i, j)]

\* The query strings of DOMHTMLMaindetailsParser.
Q_main_name == "//h1[@data-testid=\"hero__pageTitle\"]//text()"

Q_main_born == "//div[h4=\"Born:\"]"

Q_main_died == "//div[h4=\"Died:\"]"

Q_birthDate == ".//time[@itemprop=\"birthDate\"]/@datetime"

Q_birthDate_abs == "//time[@itemprop=\"birthDate\"]/@datetime"

Q_main_birth_place == ".//a[starts-with(@href, \"/search/name?birth_place=\")]/text()"

Q_deathDate == ".//time[@itemprop=\"deathDate\"]/@datetime"

Q_main_death_place == ".//a[starts-with(@href, \"/search/name?death_place=\")]/text()"

Q_inner_div == ".//div[contains(@class, \"ipc-html-content-inner-div\")]/text()"

Q_main_headshot == "(//section[contains(@class, \"ipc-page-section\")])[1]//div[contains(@class, \"ipc-poster\")]/img[@class=\"ipc-image\"]/@src"

Q_main_akas == "//div[h4=\"Alternate Names:\"]/text()"

Q_main_devitem == "//div[starts-with(@class,\"devitem\")]"

Q_a_href == "./a/@href"

Q_a_text == "./a/text()"

Q_main_imdbID == "//meta[@property=\"og:url\"]/@content"

\* evaluate(node, query) for a node-set query: the matched nodes in document order.
MainNodes(d, ctx, q) ==
    CASE q = Q_main_born -> NodesOf("born", Len(d.born), 0)
      [] q = Q_main_died -> NodesOf("died", Len(d.died), 0)
      [] q = Q_main_devitem -> NodesOf("devitem", Len(d.dev), 0)
      [] OTHER -> <<>>

\* The datetime attributes of every time element of the page with the given
\* itemprop, wherever it stands.
AllTimes(sections, stray) ==
    LET RECURSIVE Inside(_)
        Inside(n) == IF n = 0 THEN <<>> ELSE Inside(n - 1) \o sections[n].dates
    IN  Inside(Len(sections)) \o stray

\* evaluate(node, query) for a scalar query: the matched strings in document order.
MainValues(d, ctx, q) ==
    CASE q = Q_birthDate_abs -> AllTimes(d.born, d.strayBirth)
      [] ctx.at = "root" /\ q = Q_main_name -> d.title
      [] ctx.at = "root" /\ q = Q_main_headshot -> d.headshot
      [] ctx.at = "root" /\ q = Q_main_akas -> d.akas
      [] ctx.at = "root" /\ q = Q_main_imdbID -> d.ogurl
      [] ctx.at = "root" /\ q = Q_birthDate -> AllTimes(d.born, d.strayBirth)
      [] ctx.at = "root" /\ q = Q_deathDate -> AllTimes(d.died, d.strayDeath)
      [] ctx.at = "born" /\ q = Q_birthDate -> d.born[ctx.i].dates
      [] ctx.at = "born" /\ q = Q_main_birth_place -> d.born[ctx.i].places
      [] ctx.at = "died" /\ q = Q_deathDate -> d.died[ctx.i].dates
      [] ctx.at = "died" /\ q = Q_main_death_place -> d.died[ctx.i].places
      [] ctx.at = "died" /\ q = Q_inner_div -> d.died[ctx.i].notes
      [] ctx.at = "devitem" /\ q = Q_a_href -> d.dev[ctx.i].link
      [] ctx.at = "devitem" /\ q = Q_a_text -> d.dev[ctx.i].title
      [] OTHER -> <<>>

\* The query strings of DOMHTMLBioParser.
Q_bio_birth_monthday == ".//a[starts-with(@href, \"/search/name/?birth_monthday=\")]/text()"

Q_bio_birth_year == ".//a[starts-with(@href, \"/search/name/?birth_year=\")]/text()"

Q_bio_birth_place == ".//a[starts-with(@href, \"/search/name/?birth_place=\")]/text()"

Q_bio_death_monthday == ".//a[contains(@href, \"monthday\")]/text()"

Q_bio_death_year == ".//a[starts-with(@href, \"/search/name/?death_date=\")][2]/text()"

Q_bio_death_place == ".//a[starts-with(@href, \"/search/name/?death_place=\")]/text()"

Q_bio_headshot == "//div[contains(@class, \"ipc-poster\")]//img[contains(@class, \"ipc-image\")]/@src"

Q_bio_name == "//li[@id=\"name\"]/div[contains(@class, \"ipc-metadata-list-item__content-container\")]//div[contains(@class, \"ipc-html-content-inner-div\")]/text()"

Q_bio_nicknames == "//li[@id=\"nicknames\"]//ul[contains(@class, \"ipc-inline-list\")]/li/span"

Q_bio_nicknames_text == "//li[@id=\"nicknames\"]//ul[contains(@class, \"ipc-inline-list\")]/li/span//text()"

Q_all_text == ".//text()"

Q_bio_born == "//ul[contains(@class, \"ipc-metadata-list\")]/li[@id=\"born\"]"

Q_bio_died == "//ul[contains(@class, \"ipc-metadata-list\")]/li[@id=\"died\"]"

Q_bio_overview == "//table[@id=\"overviewTable\"]//td[text()=\"Birth Name\"]/following-sibling::td[1]/text()"

Q_bio_height == "//li[@id=\"height\"]/div[contains(@class, \"ipc-metadata-list-item__content-container\")]//div[contains(@class, \"ipc-html-content-inner-div\")]/text()"

Q_bio_mini_bio == "//div[@data-testid=\"sub-section-mini_bio\"]"

Q_bio_by == ".//a[@name=\"ba\"]//text()"

Q_bio_spouse == "//a[@name=\"spouse\"]/following::table[1]//tr"

Q_td1 == "./td[1]//text()"

Q_td2 == "./td[2]//text()"

Q_bio_trademark == "//div[@data-testid=\"sub-section-trademark\"]//li[contains(@id, \"trademark_\")]"

Q_bio_trivia == "//div[@data-testid=\"sub-section-trivia\"]//li[contains(@id, \"trivia_\")]"

Q_bio_quotes == "//div[@data-testid=\"sub-section-quotes\"]//li[contains(@id, \"quote_\")]"

Q_bio_salary == "//div[@data-testid=\"sub-section-salary\"]//li"

Q_a_text_any == ".//a/text()"

Q_bio_salary_info == "string(.//a/following-sibling::text()[1])"

BioNodes(d, ctx, q) ==
    CASE q = Q_bio_nicknames -> NodesOf("nick", Len(d.nicks), 0)
      [] q = Q_bio_born -> NodesOf("born", Len(d.born), 0)
      [] q = Q_bio_died -> NodesOf("died", Len(d.died), 0)
      [] q = Q_bio_mini_bio -> NodesOf("minibio", Len(d.minibio), 0)
      [] q = Q_bio_spouse -> NodesOf("spouse", Len(d.spouse), 0)
      [] q = Q_bio_trademark -> NodesOf("trademark", Len(d.trademark), 0)
      [] q = Q_bio_trivia -> NodesOf("trivia", Len(d.trivia), 0)
      [] q = Q_bio_quotes -> NodesOf("quote", Len(d.quotes), 0)
      [] q = Q_bio_salary -> NodesOf("salary", Len(d.salary), 0)
      [] OTHER -> <<>>

\* The text nodes of every nick-name span of the page, in document order.
AllNickTexts(nicks) ==
    LET RECURSIVE Upto(_)
        Upto(n) == IF n = 0 THEN <<>> ELSE Upto(n - 1) \o nicks[n]
    IN  Upto(Len(nicks))

BioValues(d, ctx, q) ==
    CASE q = Q_bio_nicknames_text -> AllNickTexts(d.nicks)
      [] ctx.at = "root" /\ q = Q_bio_headshot -> d.headshot
      [] ctx.at = "root" /\ q = Q_bio_name -> d.nameLi
      [] ctx.at = "root" /\ q = Q_bio_overview -> d.overview
      [] ctx.at = "root" /\ q = Q_bio_height -> d.height
      [] ctx.at = "nick" /\ q = Q_all_text -> d.nicks[ctx.i]
      [] ctx.at = "born" /\ q = Q_bio_birth_monthday -> d.born[ctx.i].monthday
      [] ctx.at = "born" /\ q = Q_bio_birth_year -> d.born[ctx.i].year
      [] ctx.at = "born" /\ q = Q_bio_birth_place -> d.born[ctx.i].place
      [] ctx.at = "died" /\ q = Q_bio_death_monthday -> d.died[ctx.i].monthday
      [] ctx.at = "died" /\ q = Q_bio_death_year -> d.died[ctx.i].year
      [] ctx.at = "died" /\ q = Q_bio_death_place -> d.died[ctx.i].place
      [] ctx.at = "died" /\ q = Q_inner_div -> d.died[ctx.i].notes
      [] ctx.at = "minibio" /\ q = Q_all_text -> d.minibio[ctx.i].bio
      [] ctx.at = "minibio" /\ q = Q_bio_by -> d.minibio[ctx.i].by
      [] ctx.at = "spouse" /\ q = Q_td1 -> d.spouse[ctx.i].name
      [] ctx.at = "spouse" /\ q = Q_td2 -> d.spouse[ctx.i].info
      [] ctx.at = "trademark" /\ q = Q_inner_div -> d.trademark[ctx.i]
      [] ctx.at = "trivia" /\ q = Q_inner_div -> d.trivia[ctx.i]
      [] ctx.at = "quote" /\ q = Q_inner_div -> d.quotes[ctx.i]
      [] ctx.at = "salary" /\ q = Q_a_text_any -> d.salary[ctx.i].title
      [] ctx.at = "salary" /\ q = Q_bio_salary_info -> d.salary[ctx.i].info
      [] OTHER -> <<>>

\* The query strings of DOMHTMLFilmographyParser.
Q_filmo_head == "//div[contains(@id, \"filmo-head-\")]"

Q_filmo_row == "./following-sibling::div[1]/div[contains(@class, \"filmo-row\")]"

Q_filmo_link == ".//b/a/@href"

Q_filmo_title == ".//b/a/text()"

Q_filmo_notes == ".//div[@class=\"ipc-metadata-list-summary-item__c\"]//ul[contains(@class, \"ipc-metadata-list-summary-item__stl\")]//label/text()"

Q_filmo_year == ".//span[@class=\"year_column\"]//text()"

Q_filmo_status == "./a[@class=\"in_production\"]/text()"

Q_filmo_roles == ".//br/following-sibling::text()"

FilmoNodes(d, ctx, q) ==
    CASE ctx.at = "root" /\ q = Q_filmo_head -> NodesOf("head", Len(d.heads), 0)
      [] ctx.at = "head" /\ q = Q_filmo_row -> NodesOf("row", Len(d.heads[ctx.i].rows), ctx.i)
      [] OTHER -> <<>>

FilmoValues(d, ctx, q) ==
    CASE ctx.at = "head" /\ q = Q_a_text_any -> d.heads[ctx.i].name
      [] ctx.at = "row" /\ q = Q_filmo_link -> d.heads[ctx.j].rows[ctx.i].link
      [] ctx.at = "row" /\ q = Q_filmo_title -> d.heads[ctx.j].rows[ctx.i].title
      [] ctx.at = "row" /\ q = Q_filmo_notes -> d.heads[ctx.j].rows[ctx.i].notes
      [] ctx.at = "row" /\ q = Q_filmo_year -> d.heads[ctx.j].rows[ctx.i].year
      [] ctx.at = "row" /\ q = Q_filmo_status -> d.heads[ctx.j].rows[ctx.i].status
      [] ctx.at = "row" /\ q = Q_filmo_roles -> d.heads[ctx.j].rows[ctx.i].roles
      [] OTHER -> <<>>

\* The query strings of DOMHTMLOtherWorksParser.
Q_works_item == "//li[contains(@class, \"ipc-metadata-list__item\") and @data-testid=\"list-item\"]"

WorksNodes(d, ctx, q) ==
    CASE ctx.at = "root" /\ q = Q_works_item -> NodesOf("work", Len(d.items), 0)
      [] OTHER -> <<>>

WorksValues(d, ctx, q) ==
    CASE ctx.at = "work" /\ q = Q_inner_div -> d.items[ctx.i]
      [] OTHER -> <<>>

\* The query strings of DOMHTMLPersonGenresParser.
Q_genres_head == "//b/a[@name]/following-sibling::a[1]"

Q_genres_movie == "../../following-sibling::ol[1]/li//a[1]"

Q_text == "./text()"

Q_href == "./@href"

Q_following_text == "./following-sibling::text()"

GenresNodes(d, ctx, q) ==
    CASE ctx.at = "root" /\ q = Q_genres_head -> NodesOf("genre", Len(d.heads), 0)
      [] ctx.at = "genre" /\ q = Q_genres_movie ->
            NodesOf("gmovie", Len(d.heads[ctx.i].movies), ctx.i)
      [] OTHER -> <<>>

GenresValues(d, ctx, q) ==
    CASE ctx.at = "genre" /\ q = Q_text -> d.heads[ctx.i].name
      [] ctx.at = "gmovie" /\ q = Q_href -> d.heads[ctx.j].movies[ctx.i].link
      [] ctx.at = "gmovie" /\ q = Q_text -> d.heads[ctx.j].movies[ctx.i].title
      [] ctx.at = "gmovie" /\ q = Q_following_text -> d.heads[ctx.j].movies[ctx.i].info
      [] OTHER -> <<>>

\* The query strings of DOMHTMLPersonAwardsParser.
Q_awards_row == "//table[@class=\"awards\"]/tr"

Q_award_year == "./td[@class=\"award_year\"]/a/text()"

Q_award_result == "./td[@class=\"award_outcome\"]/b/text()"

Q_award_prize == ".//span[@class=\"award_category\"]/text()"

Q_award_movies == "./td[@class=\"award_description\"]/a"

Q_award_title_year == "./following-sibling::span[@class=\"title_year\"][1]/text()"

Q_award_shared == "./td[@class=\"award_description\"]/div[@class=\"shared_with\"]/following-sibling::ul//a"

Q_award_category == "./td[@class=\"award_description\"]/text()"

Q_award_award == "../preceding-sibling::h3[1]/text()"

AwardsNodes(d, ctx, q) ==
    CASE ctx.at = "root" /\ q = Q_awards_row -> NodesOf("award", Len(d.rows), 0)
      [] ctx.at = "award" /\ q = Q_award_movies ->
            NodesOf("amovie", Len(d.rows[ctx.i].movies), ctx.i)
      [] ctx.at = "award" /\ q = Q_award_shared ->
            NodesOf("shared", Len(d.rows[ctx.i].shared), ctx.i)
      [] OTHER -> <<>>

AwardsValues(d, ctx, q) ==
    CASE ctx.at = "award" /\ q = Q_award_year -> d.rows[ctx.i].year
      [] ctx.at = "award" /\ q = Q_award_result -> d.rows[ctx.i].result
      [] ctx.at = "award" /\ q = Q_award_prize -> d.rows[ctx.i].prize
      [] ctx.at = "award" /\ q = Q_award_category -> d.rows[ctx.i].category
      [] ctx.at = "award" /\ q = Q_award_award -> d.rows[ctx.i].award
      [] ctx.at = "amovie" /\ q = Q_text -> d.rows[ctx.j].movies[ctx.i].title
      [] ctx.at = "amovie" /\ q = Q_href -> d.rows[ctx.j].movies[ctx.i].link
      [] ctx.at = "amovie" /\ q = Q_award_title_year -> d.rows[ctx.j].movies[ctx.i].year
      [] ctx.at = "shared" /\ q = Q_text -> d.rows[ctx.j].shared[ctx.i].name
      [] ctx.at = "shared" /\ q = Q_href -> d.rows[ctx.j].shared[ctx.i].link
      [] OTHER -> <<>>

Nodes(d, ctx, q) ==
    CASE d.page = "main" -> MainNodes(d, ctx, q)
      [] d.page = "bio" -> BioNodes(d, ctx, q)
      [] d.page = "filmo" -> FilmoNodes(d, ctx, q)
      [] d.page = "works" -> WorksNodes(d, ctx, q)
      [] d.page = "genres" -> GenresNodes(d, ctx, q)
      [] d.page = "awards" -> AwardsNodes(d, ctx, q)
      [] OTHER -> <<>>

Values(d, ctx, q) ==
    CASE d.page = "main" -> MainValues(d, ctx, q)
      [] d.page = "bio" -> BioValues(d, ctx, q)
      [] d.page = "filmo" -> FilmoValues(d, ctx, q)
      [] d.page = "works" -> WorksValues(d, ctx, q)
      [] d.page = "genres" -> GenresValues(d, ctx, q)
      [] d.page = "awards" -> AwardsValues(d, ctx, q)
      [] OTHER -> <<>>

(***************************************************************************)
(* External builders (imdb.utils, parser.http.utils), by their contracts.  *)
(***************************************************************************)
\* analyze_imdbid(href): the identifier in a URL-like string, None when no
\* pattern matches (or there is no string).
analyze_imdbid(v) ==
    IF v.t # "str" THEN None
    ELSE IF \E i \in 1..Len(v.s) : v.s[i] = "/title/tt0133093/" THEN Str(<<"0133093">>)
    ELSE IF \E i \in 1..Len(v.s) : v.s[i] = "/name/nm0000154/" THEN Str(<<"0000154">>)
    ELSE None

\* analyze_name(text): the structured name fields of a display name.
analyze_name(v) == Map("name" :> Str(Strip(v.s)))

\* build_movie(title, movieID, **kwargs): a movie record of what it was given.
build_movie(title, movieID, kw) == Obj("movie", ("title" :> title) @@ ("movieID" :> movieID) @@ kw)

\* build_person(name, personID): a person record of what it was given.
build_person(name, personID) == Obj("person", ("name" :> name) @@ ("personID" :> personID))

(***************************************************************************)
(* Transforms of DOMHTMLMaindetailsParser                                  *)
(***************************************************************************)
\* lambda texts: next((t.strip() for t in texts if t and t.strip().startswith('(')), None)
\* applied to the joined text: its items are the characters of the text.
main_death_notes(v) == IF Find(v.s, "(") # 0 THEN Str(<<"(">>) ELSE None

\* lambda x: x.strip().split('  ')
main_akas(v) == List(SplitDouble(Strip(v.s), <<>>))

\* lambda x: build_movie(x.get('title') or '', movieID=..., roleID=..., status=...)
main_in_development(v) ==
    build_movie(Or(Get(v.m, "title"), Str(<<>>)),
                analyze_imdbid(Or(Get(v.m, "link"), Str(<<>>))),
                ("roleID" :> List(<<Or(Get(v.m, "roleID"), Str(<<>>))>>))
                    @@ ("status" :> Or(Get(v.m, "status"), None)))

(***************************************************************************)
(* Transforms of DOMHTMLBioParser                                          *)
(***************************************************************************)
\* extract_notes(notes)
extract_notes(v) ==
    LET note_begin_idx == Find(v.s, "(")
        note_end_idx == RFind(v.s, ")")
    IN  IF note_begin_idx = 0 \/ note_end_idx = 0 THEN Str(<<>>)
        ELSE Str(Strip(SubSeq(v.s, note_begin_idx + 1, note_end_idx - 1)))

\* lambda x: x.get(key) or ''
get_or_empty(v, key) == Or(Get(v.m, key), Str(<<>>))

\* lambda x: "%s::%s" % ((x.get('bio') or '').split('- IMDb Mini Biography By:')[0].strip(),
\*                       (x.get('by') or '').strip() or 'Anonymous')
bio_mini_biography(v) ==
    LET bio == Strip(Before(get_or_empty(v, "bio").s, "- IMDb Mini Biography By:"))
        by == Strip(get_or_empty(v, "by").s)
    IN  Str(bio \o <<":", ":">> \o (IF by # <<>> THEN by ELSE <<"Anonymous">>))

\* lambda x: ("%s::%s" % (x.get('name').strip(),
\*                        (_re_spaces.sub(' ', x.get('info') or '')).strip())).strip(':')
\* x.get('name') is None when the row has no name: None has no strip.
bio_spouse(v) ==
    IF Get(v.m, "name").t # "str" THEN Err
    ELSE Str(StripChar(Strip(Get(v.m, "name").s) \o <<":", ":">>
                           \o Strip(CollapseSpaces(get_or_empty(v, "info").s)), ":"))

\* lambda x: (x.get('quote') or '').replace('\n', ' ')
bio_quotes(v) == Str(ReplaceNewline(get_or_empty(v, "quote").s))

\* lambda x: "%s %s" % ((x.get('title') or '').strip(),
\*                      (x.get('info') or '').strip().replace(' - ', '::'))
bio_salary_history(v) ==
    Str(Strip(get_or_empty(v, "title").s) \o <<" ">>
            \o ReplaceDash(Strip(get_or_empty(v, "info").s)))

(***************************************************************************)
(* Transforms of the filmography, genres and awards parsers                *)
(***************************************************************************)
\* lambda x: build_movie(x.get('title') or '', year=x.get('year'), movieID=...,
\*                       rolesNoChar=..., additionalNotes=x.get('notes'), status=...)
filmo_build_movie(v) ==
    build_movie(get_or_empty(v, "title"),
                analyze_imdbid(get_or_empty(v, "link")),
                ("year" :> Get(v.m, "year"))
                    @@ ("rolesNoChar" :> Str(Strip(get_or_empty(v, "rolesNoChar").s)))
                    @@ ("additionalNotes" :> Get(v.m, "notes"))
                    @@ ("status" :> Or(Get(v.m, "status"), None)))

\* lambda x: build_movie(x.get('title') + x.get('info').split('[')[0],
\*                       analyze_imdbid(x.get('link')))
\* None has no split, and None + str is a TypeError.
genres_build_movie(v) ==
    IF Get(v.m, "info").t # "str" \/ Get(v.m, "title").t # "str" THEN Err
    ELSE build_movie(Str(Get(v.m, "title").s \o Before(Get(v.m, "info").s, "[")),
                     analyze_imdbid(Get(v.m, "link")), EmptyDict)

\* lambda x: build_movie(x.get('title') or '', movieID=analyze_imdbid(x.get('link')),
\*                       year=x.get('year'))
awards_build_movie(v) ==
    build_movie(get_or_empty(v, "title"), analyze_imdbid(Get(v.m, "link")),
                "year" :> Get(v.m, "year"))

\* lambda x: build_person(x.get('name') or '', personID=analyze_imdbid(x.get('link')))
awards_build_person(v) ==
    build_person(get_or_empty(v, "name"), analyze_imdbid(Get(v.m, "link")))

\* int(text): the number of a decimal numeral, ValueError otherwise.
int(s) ==
    IF s = <<"1996">> THEN IntV(1996)
    ELSE IF s = <<"2004">> THEN IntV(2004)
    ELSE Err

\* awards[key] = value.strip() when value is truthy
PutStripped(awards, x, key) ==
    IF Truthy(Get(x, key)) THEN (key :> Str(Strip(Get(x, key).s))) @@ awards ELSE awards

\* awards[key] = value when value is truthy
PutAsIs(awards, x, key) ==
    IF Truthy(Get(x, key)) THEN (key :> Get(x, key)) @@ awards ELSE awards

process_person_award(v) ==
    LET x == v.m
        year == Get(x, "year")
        yearInt == IF Truthy(year) THEN int(Strip(year.s)) ELSE None
        a1 == IF Truthy(year) /\ yearInt.t # "err" THEN "year" :> yearInt ELSE EmptyDict
        a2 == PutStripped(a1, x, "result")
        a3 == PutStripped(a2, x, "prize")
        a4 == PutStripped(a3, x, "category")
        a5 == PutAsIs(a4, x, "movies")
        a6 == PutStripped(a5, x, "award")
        a7 == PutAsIs(a6, x, "shared with")
    IN  IF yearInt.t = "err" THEN Err ELSE Map(a7)

Transform(tr, v) ==
    CASE tr = "" -> v
      [] tr = "filmo_build_movie" -> filmo_build_movie(v)
      [] tr = "works_work" -> get_or_empty(v, "work")
      [] tr = "genres_build_movie" -> genres_build_movie(v)
      [] tr = "awards_build_movie" -> awards_build_movie(v)
      [] tr = "awards_build_person" -> awards_build_person(v)
      [] tr = "process_person_award" -> process_person_award(v)
      [] tr = "extract_notes" -> extract_notes(v)
      [] tr = "bio_nick_names" -> get_or_empty(v, "nickname")
      [] tr = "bio_trade_mark" -> get_or_empty(v, "trademark")
      [] tr = "bio_trivia" -> get_or_empty(v, "trivia_item")
      [] tr = "bio_quotes" -> bio_quotes(v)
      [] tr = "bio_mini_biography" -> bio_mini_biography(v)
      [] tr = "bio_spouse" -> bio_spouse(v)
      [] tr = "bio_salary_history" -> bio_salary_history(v)
      [] tr = "strip" -> Str(Strip(v.s))
      [] tr = "lower" -> Str(Lower(v.s))
      [] tr = "analyze_name" -> analyze_name(v)
      [] tr = "analyze_imdbid" -> analyze_imdbid(v)
      [] tr = "main_death_notes" -> main_death_notes(v)
      [] tr = "main_akas" -> main_akas(v)
      [] tr = "main_in_development" -> main_in_development(v)

(***************************************************************************)
(* Rule, Rules, Path: the rule evaluator                                   *)
(***************************************************************************)
Path(q, tr) == [k |-> "path", q |-> q, tr |-> tr]

Rules(section, foreach, rules, tr) ==
    [k |-> "rules", section |-> section, foreach |-> foreach, rules |-> rules, tr |-> tr]

NoPath == Path("", "")

\* Rule(key='...', extractor=...)
Rule(key, extractor) ==
    [key |-> key, keyPath |-> NoPath, foreach |-> "", extractor |-> extractor]

\* Rule(key=Path(...), extractor=...)
RuleK(keyPath, extractor) ==
    [key |-> "", keyPath |-> keyPath, foreach |-> "", extractor |-> extractor]

\* Rule(key='...', foreach='...', extractor=...)
RuleF(key, foreach, extractor) ==
    [key |-> key, keyPath |-> NoPath, foreach |-> foreach, extractor |-> extractor]

RECURSIVE KeyOf(_)
\* The text of a key as a mapping key.
KeyOf(s) == IF s = <<>> THEN "" ELSE Head(s) \o KeyOf(Tail(s))

NoKey == [t |-> "nokey"]

\* Step 3a: the key of a rule on a node: the literal, or the first match of the
\* key query after its transform, lower-cased and trimmed.
ResolveKey(d, ctx, r) ==
    IF r.keyPath.q = "" THEN [t |-> "key", key |-> r.key]
    ELSE LET sel == Values(d, ctx, r.keyPath.q)
         IN  IF sel = <<>> THEN NoKey
             ELSE [t |-> "key",
                   key |-> KeyOf(Strip(Lower(Transform(r.keyPath.tr, Str(sel[1])).s)))]

\* Step 3f: a value that is not inserted.  The sequence of a foreach is
\* inserted even when it is empty.
IsEmptyValue(v) ==
    \/ v.t = "none"
    \/ v.t = "str" /\ v.s = <<>>
    \/ v.t = "map" /\ DOMAIN v.m = {}

HasErr(xs) == \E i \in 1..Len(xs) : xs[i].t = "err"

\* A rule boundary that stores None under the key of a failed transform.
RuleBoundary_placeholder(m, key, v) ==
    IF IsEmptyValue(v) THEN m
    ELSE IF v.t = "err" THEN (key :> None) @@ m
    ELSE (key :> v) @@ m

\* The fault barrier of section 7: a failed transform leaves the field out.
RuleBoundary(m, key, v) ==
    IF v.t = "err" \/ IsEmptyValue(v) THEN m ELSE (key :> v) @@ m

RECURSIVE Extract(_, _, _), Assemble(_, _, _, _)

\* Steps 1 and 3: the mapping of a rule set on a node (re-rooted to the first
\* match of its section, the empty mapping when the section matches nothing).
Mapping(d, ctx, rs) ==
    IF rs.section = "" THEN Assemble(d, ctx, rs.rules, Len(rs.rules))
    ELSE LET ns == Nodes(d, ctx, rs.section)
         IN  IF ns = <<>> THEN EmptyDict ELSE Assemble(d, ns[1], rs.rules, Len(rs.rules))

\* Steps 2, 3c, 3d, 4: the value of an extractor on a node, Err when its
\* transform raises.
Extract(d, ctx, ex) ==
    IF ex.k = "path"
    THEN LET sel == Values(d, ctx, ex.q)
         IN  IF sel = <<>> THEN None ELSE Transform(ex.tr, Str(Join(sel)))
    ELSE IF ex.foreach # ""
    THEN LET ns == Nodes(d, ctx, ex.foreach)
             xs == [i \in 1..Len(ns) |-> Transform(ex.tr, Map(Mapping(d, ns[i], ex)))]
         IN  IF HasErr(xs) THEN Err ELSE List(xs)
    ELSE Transform(ex.tr, Map(Mapping(d, ctx, ex)))

\* Step 3b: a rule with its own foreach gives the sequence of its extractor's
\* values on the matched nodes.
RuleValue(d, ctx, r) ==
    IF r.foreach = "" THEN Extract(d, ctx, r.extractor)
    ELSE LET ns == Nodes(d, ctx, r.foreach)
             xs == [i \in 1..Len(ns) |-> Extract(d, ns[i], r.extractor)]
         IN  IF HasErr(xs) THEN Err ELSE List(xs)

\* Steps 3, 3e: the first n rules in declared order, a later rule overwriting
\* the value of an earlier one with the same key.
Assemble(d, ctx, rules, n) ==
    IF n = 0 THEN EmptyDict
    ELSE LET m == Assemble(d, ctx, rules, n - 1)
             key == ResolveKey(d, ctx, rules[n])
         IN  IF key.t = "nokey" THEN m
             ELSE RuleBoundary(m, key.key, RuleValue(d, ctx, rules[n]))

\* parse_dom: the root rule set on the root of the tree.
parse_dom(rules, d) == Assemble(d, Root, rules, Len(rules))

(***************************************************************************)
(* DOMHTMLMaindetailsParser                                                *)
(***************************************************************************)
\* _birth_rules with the birth date taken by a path from the document root.
Maindetails_birth_rules_abs ==
    << Rule("birth date", Path(Q_birthDate_abs, "")),
       Rule("birth place", Path(Q_main_birth_place, "")) >>

Maindetails_birth_rules ==
    << Rule("birth date", Path(Q_birthDate, "")),
       Rule("birth place", Path(Q_main_birth_place, "")) >>

Maindetails_death_rules ==
    << Rule("death date", Path(Q_deathDate, "")),
       Rule("death place", Path(Q_main_death_place, "")),
       Rule("death notes", Path(Q_inner_div, "main_death_notes")) >>

Maindetails_rules ==
    << Rule("name", Path(Q_main_name, "analyze_name")),
       Rule("birth info", Rules(Q_main_born, "", Maindetails_birth_rules, "")),
       Rule("death info", Rules(Q_main_died, "", Maindetails_death_rules, "")),
       Rule("headshot", Path(Q_main_headshot, "")),
       Rule("akas", Path(Q_main_akas, "main_akas")),
       Rule("in development",
            Rules("", Q_main_devitem,
                  << Rule("link", Path(Q_a_href, "")),
                     Rule("title", Path(Q_a_text, "")) >>,
                  "main_in_development")),
       Rule("imdbID", Path(Q_main_imdbID, "analyze_imdbid")) >>

\* The outcome of a postprocess_data call: the mapping it was given as the
\* call left it (the hooks change it in place), whether the call raised, and
\* the value it returned.
Outcome(arg, exc, ret) == [arg |-> arg, exc |-> exc, ret |-> ret]

\* postprocess_data reshaping a copy: the mapping it was given stays as it was.
Maindetails_postprocess_data_copy(data0) ==
    LET d1 == IF "name" \in DOMAIN data0 /\ IsMap(data0["name"])
              THEN Update(Del(data0, "name"), data0["name"].m)
              ELSE data0
        d2 == IF "birth date" \in DOMAIN d1 /\ ~Truthy(d1["birth date"])
              THEN Del(d1, "birth date") ELSE d1
        d3 == IF "death date" \in DOMAIN d2 /\ ~Truthy(d2["death date"])
              THEN Del(d2, "death date") ELSE d2
    IN  Outcome(data0, FALSE, d3)

Maindetails_postprocess_data(data0) ==
    LET d1 == IF "name" \in DOMAIN data0 /\ IsMap(data0["name"])
              THEN Update(Del(data0, "name"), data0["name"].m)
              ELSE data0
        d2 == IF "birth date" \in DOMAIN d1 /\ ~Truthy(d1["birth date"])
              THEN Del(d1, "birth date") ELSE d1
        d3 == IF "death date" \in DOMAIN d2 /\ ~Truthy(d2["death date"])
              THEN Del(d2, "death date") ELSE d2
    IN  Outcome(d3, FALSE, d3)

(***************************************************************************)
(* DOMHTMLBioParser                                                        *)
(***************************************************************************)
Bio_birth_rules ==
    << Rule("monthday", Path(Q_bio_birth_monthday, "")),
       Rule("year", Path(Q_bio_birth_year, "")),
       Rule("birth place", Path(Q_bio_birth_place, "")) >>

Bio_death_rules ==
    << Rule("monthday", Path(Q_bio_death_monthday, "")),
       Rule("year", Path(Q_bio_death_year, "")),
       Rule("death place", Path(Q_bio_death_place, "")),
       Rule("death notes", Path(Q_inner_div, "extract_notes")) >>

\* A foreach rule set of one string rule, as the bio and other-works tables
\* use for 'nick names', 'trade mark', 'trivia', 'quotes', 'other works'.
StringList(foreach, key, tr) ==
    Rules("", foreach, << Rule(key, Path(Q_inner_div, "strip")) >>, tr)

\* The first 'birth name' rule: the name item of the metadata list.
Bio_birth_name_li == Rule("birth name", Path(Q_bio_name, "strip"))

\* The second 'birth name' rule: the overview table.
Bio_birth_name_overview == Rule("birth name", Path(Q_bio_overview, "strip"))

Bio_nick_names ==
    Rule("nick names",
         Rules("", Q_bio_nicknames,
               << Rule("nickname", Path(Q_all_text, "strip")) >>,
               "bio_nick_names"))

\* The rules of the table up to the second 'birth name' rule, with the two
\* 'birth name' rules and the 'nick names' rule as given.
Bio_rules_head(name1, nick, name2) ==
    << Rule("headshot", Path(Q_bio_headshot, "")),
       name1,
       nick,
       Rule("birth info", Rules(Q_bio_born, "", Bio_birth_rules, "")),
       Rule("death info", Rules(Q_bio_died, "", Bio_death_rules, "")),
       name2 >>

\* The rules of the table after the second 'birth name' rule.
Bio_rules_tail ==
    << Rule("height", Path(Q_bio_height, "strip")),
       Rule("mini biography",
            Rules("", Q_bio_mini_bio,
                  << Rule("bio", Path(Q_all_text, "")),
                     Rule("by", Path(Q_bio_by, "")) >>,
                  "bio_mini_biography")),
       Rule("spouse",
            Rules("", Q_bio_spouse,
                  << Rule("name", Path(Q_td1, "")),
                     Rule("info", Path(Q_td2, "")) >>,
                  "bio_spouse")),
       Rule("trade mark", StringList(Q_bio_trademark, "trademark", "bio_trade_mark")),
       Rule("trivia", StringList(Q_bio_trivia, "trivia_item", "bio_trivia")),
       Rule("quotes", StringList(Q_bio_quotes, "quote", "bio_quotes")),
       Rule("salary history",
            Rules("", Q_bio_salary,
                  << Rule("title", Path(Q_a_text_any, "strip")),
                     Rule("info", Path(Q_bio_salary_info, "strip")) >>,
                  "bio_salary_history")) >>

\* The table with the two 'birth name' rules in the other order.
Bio_rules_swapped ==
    Bio_rules_head(Bio_birth_name_overview, Bio_nick_names, Bio_birth_name_li)
        \o Bio_rules_tail

\* The table with 'nick names' as one path over the text of every entry.
Bio_rules_nick_joined ==
    Bio_rules_head(Bio_birth_name_li,
                   Rule("nick names", Path(Q_bio_nicknames_text, "strip")),
                   Bio_birth_name_overview)
        \o Bio_rules_tail

Bio_rules ==
    Bio_rules_head(Bio_birth_name_li, Bio_nick_names, Bio_birth_name_overview)
        \o Bio_rules_tail

MonthNumber(tok) ==
    CASE tok = "May" -> "05"
      [] tok = "June" -> "06"
      [] tok = "February" -> "02"
      [] OTHER -> ""

DayNumber(tok) ==
    CASE tok = "17" -> "17"
      [] tok = "3" -> "03"
      [] tok = "29" -> "29"
      [] OTHER -> ""

\* The days of the month in 1900, the year strptime assumes.
DaysIn(mm) == IF mm = "02" THEN {"17", "03"} ELSE {"17", "03", "29"}

\* datetime.strptime(text, '%B %d').strftime('%m-%d'): a month name, white
\* space, a day of that month and nothing else; ValueError otherwise.
strptime_monthday(v) ==
    LET s == v.s
        n == Len(s)
    IN  IF /\ n >= 3
           /\ MonthNumber(s[1]) # ""
           /\ \A i \in 2..(n - 1) : IsSpace(s[i])
           /\ DayNumber(s[n]) \in DaysIn(MonthNumber(s[1]))
        THEN Str(<<MonthNumber(s[1]), "-", DayNumber(s[n])>>)
        ELSE Err

\* The round without the test of the_date: the date is stored even when empty.
Bio_event_unguarded(data0, event) ==
    LET key == event \o " info"
        info == IF key \in DOMAIN data0 THEN data0[key].m ELSE EmptyDict
        d1 == Del(data0, key)
        md == IF "monthday" \in DOMAIN info THEN strptime_monthday(info["monthday"])
              ELSE Str(<<>>)
        monthday == md.s
        i1 == Del(info, "monthday")
        year == IF "year" \in DOMAIN i1 THEN i1["year"].s ELSE <<>>
        i2 == Del(i1, "year")
        the_date == IF year # <<>> /\ monthday # <<>> THEN year \o <<"-">> \o monthday
                    ELSE IF year # <<>> THEN year
                    ELSE IF monthday # <<>> THEN monthday
                    ELSE <<>>
        d2 == ((event \o " date") :> Str(the_date)) @@ d1
        d3 == Update(d2, i2)
        d4 == IF "death notes" \in DOMAIN i2
              THEN ("death notes" :> Str(Strip(i2["death notes"].s))) @@ d3
              ELSE d3
    IN  IF md.t = "err" THEN [data |-> d1, exc |-> TRUE]
        ELSE [data |-> d4, exc |-> FALSE]

\* One round of the loop of postprocess_data, for event: the mapping after
\* the round, and whether strptime raised in it.
Bio_event(data0, event) ==
    LET key == event \o " info"
        info == IF key \in DOMAIN data0 THEN data0[key].m ELSE EmptyDict
        d1 == Del(data0, key)
        md == IF "monthday" \in DOMAIN info THEN strptime_monthday(info["monthday"])
              ELSE Str(<<>>)
        monthday == md.s
        i1 == Del(info, "monthday")
        year == IF "year" \in DOMAIN i1 THEN i1["year"].s ELSE <<>>
        i2 == Del(i1, "year")
        the_date == IF year # <<>> /\ monthday # <<>> THEN year \o <<"-">> \o monthday
                    ELSE IF year # <<>> THEN year
                    ELSE IF monthday # <<>> THEN monthday
                    ELSE <<>>
        d2 == IF the_date # <<>> THEN ((event \o " date") :> Str(the_date)) @@ d1 ELSE d1
        d3 == Update(d2, i2)
        d4 == IF "death notes" \in DOMAIN i2
              THEN ("death notes" :> Str(Strip(i2["death notes"].s))) @@ d3
              ELSE d3
    IN  IF md.t = "err" THEN [data |-> d1, exc |-> TRUE]
        ELSE [data |-> d4, exc |-> FALSE]

Bio_postprocess_data(data0) ==
    LET birth == Bio_event(data0, "birth")
        death == Bio_event(birth.data, "death")
        d2 == IF "nick names" \in DOMAIN death.data /\ IsStr(death.data["nick names"])
              THEN ("nick names" :> List(<<death.data["nick names"]>>)) @@ death.data
              ELSE death.data
    IN  IF birth.exc THEN Outcome(birth.data, TRUE, None)
        ELSE IF death.exc THEN Outcome(death.data, TRUE, None)
        ELSE Outcome(d2, FALSE, d2)

(***************************************************************************)
(* DOMHTMLFilmographyParser                                                *)
(***************************************************************************)
Filmography_film_rules ==
    << Rule("link", Path(Q_filmo_link, "")),
       Rule("title", Path(Q_filmo_title, "")),
       Rule("notes", Path(Q_filmo_notes, "")),
       Rule("year", Path(Q_filmo_year, "strip")),
       Rule("status", Path(Q_filmo_status, "")),
       Rule("rolesNoChar", Path(Q_filmo_roles, "strip")) >>

Filmography_rules ==
    << Rule("filmography",
            Rules("", Q_filmo_head,
                  << RuleK(Path(Q_a_text_any, "lower"),
                           Rules("", Q_filmo_row, Filmography_film_rules,
                                 "filmo_build_movie")) >>,
                  "")) >>

RECURSIVE MergeJobs(_, _)
\* The loop of postprocess_data over the first n jobs: filmo.update(job) for
\* every job that is a non-empty mapping.
MergeJobs(jobs, n) ==
    IF n = 0 THEN EmptyDict
    ELSE LET filmo == MergeJobs(jobs, n - 1)
             job == jobs[n]
         IN  IF ~IsMap(job) \/ ~Truthy(job) THEN filmo ELSE Update(filmo, job.m)

\* postprocess_data with filmo = job in place of filmo.update(job).
Filmography_postprocess_data_last(data0) ==
    LET found == Or(Get(data0, "filmography"), List(<<>>))
        kept == {n \in 1..Len(found.xs) : IsMap(found.xs[n]) /\ Truthy(found.xs[n])}
        filmo == IF kept = {} THEN EmptyDict
                 ELSE found.xs[CHOOSE n \in kept : \A k \in kept : k <= n].m
        d1 == IF DOMAIN filmo # {} THEN ("filmography" :> Map(filmo)) @@ data0 ELSE data0
    IN  Outcome(d1, FALSE, d1)

Filmography_postprocess_data(data0) ==
    LET found == Or(Get(data0, "filmography"), List(<<>>))
        filmo == MergeJobs(found.xs, Len(found.xs))
        d1 == IF DOMAIN filmo # {} THEN ("filmography" :> Map(filmo)) @@ data0 ELSE data0
    IN  Outcome(d1, FALSE, d1)

(***************************************************************************)
(* DOMHTMLOtherWorksParser                                                 *)
(***************************************************************************)
\* The table with the list items taken as a section, not a foreach.
OtherWorks_rules_section ==
    << Rule("other works",
            Rules(Q_works_item, "", << Rule("work", Path(Q_inner_div, "strip")) >>,
                  "works_work")) >>

OtherWorks_rules ==
    << Rule("other works", StringList(Q_works_item, "work", "works_work")) >>

\* DOMParserBase.postprocess_data: the mapping as it is.
Base_postprocess_data(data0) == Outcome(data0, FALSE, data0)

(***************************************************************************)
(* DOMHTMLPersonGenresParser                                               *)
(***************************************************************************)
PersonGenres_rules ==
    << Rule("genres",
            Rules("", Q_genres_head,
                  << RuleK(Path(Q_text, "lower"),
                           Rules("", Q_genres_movie,
                                 << Rule("link", Path(Q_href, "")),
                                    Rule("title", Path(Q_text, "")),
                                    Rule("info", Path(Q_following_text, "")) >>,
                                 "genres_build_movie")) >>,
                  "")) >>

\* self.kind: the class attribute, or the 'kind' the dispatch table sets.
KindOf(p) == IF p = "person_keywords_parser" THEN "keywords" ELSE "genres"

\* postprocess_data without the test of len(data).
PersonGenres_postprocess_data_always(kind, data0) ==
    Outcome(data0, FALSE, kind :> Map(data0))

PersonGenres_postprocess_data(kind, data0) ==
    IF DOMAIN data0 = {} THEN Outcome(data0, FALSE, EmptyDict)
    ELSE Outcome(data0, FALSE, kind :> Map(data0))

(***************************************************************************)
(* DOMHTMLPersonAwardsParser                                               *)
(***************************************************************************)
PersonAwards_rules ==
    << Rule("awards",
            Rules("", Q_awards_row,
                  << Rule("year", Path(Q_award_year, "")),
                     Rule("result", Path(Q_award_result, "")),
                     Rule("prize", Path(Q_award_prize, "")),
                     RuleF("movies", Q_award_movies,
                           Rules("", "",
                                 << Rule("title", Path(Q_text, "")),
                                    Rule("link", Path(Q_href, "")),
                                    Rule("year", Path(Q_award_title_year, "")) >>,
                                 "awards_build_movie")),
                     RuleF("shared with", Q_award_shared,
                           Rules("", "",
                                 << Rule("name", Path(Q_text, "")),
                                    Rule("link", Path(Q_href, "")) >>,
                                 "awards_build_person")),
                     Rule("category", Path(Q_award_category, "")),
                     Rule("award", Path(Q_award_award, "")) >>,
                  "process_person_award")) >>

(***************************************************************************)
(* Input pages                                                             *)
(***************************************************************************)
\* The sequences over S of length at most n.
SeqsUpTo(S, n) == UNION {[1..k -> S] : k \in 0..n}

\* No section, one section, or one section followed by a second of the kind.
Sections(S, second) == {<<>>} \cup {<<x>> : x \in S} \cup {<<x, second>> : x \in S}

\* The empty string, and any input no tree can be built from.
EmptyPage == [page |-> "empty"]

MainBornDivs ==
    [dates : {<<>>, << <<"1960-05-17">> >>, << <<>> >>},
     places : {<<>>, << <<"Peekskill">> >>}]

MainDiedDivs ==
    [dates : {<<>>, << <<"2020-02-02">> >>},
     places : {<<>>, << <<"Sydney">> >>},
     notes : {<<>>, << <<" ", "(", "age", " ", "60", ")">> >>, << <<"natural", " ", "causes">> >>}]

MainCore ==
    [title : {<<>>, << <<" ", "Mel", " ", "Gibson">> >>},
     born : Sections(MainBornDivs, [dates |-> << <<"1111-11-11">> >>, places |-> <<>>]),
     died : Sections(MainDiedDivs,
                     [dates |-> << <<"2222-02-22">> >>, places |-> <<>>, notes |-> <<>>]),
     strayBirth : {<<>>, << <<"1999-09-09">> >>},
     strayDeath : {<<>>, << <<"2099-09-09">> >>}]

MainDevItems ==
    {[link |-> << <<"/title/tt0133093/">> >>, title |-> << <<"The", " ", "Matrix">> >>],
     [link |-> <<>>, title |-> <<>>]}

MainMisc ==
    [headshot : {<<>>, << <<"http://img/1.jpg">> >>},
     akas : {<<>>, << <<" ", "Mel", " ", " ", "M.G.", " ">> >>},
     ogurl : {<<>>, << <<"/name/nm0000154/">> >>, << <<"about:blank">> >>},
     dev : SeqsUpTo(MainDevItems, MaxNodes)]

MainCore0 ==
    [title |-> << <<"Mel">> >>, born |-> <<>>, died |-> <<>>,
     strayBirth |-> <<>>, strayDeath |-> <<>>]

MainMisc0 == [headshot |-> <<>>, akas |-> <<>>, ogurl |-> <<>>, dev |-> <<>>]

MainPage(c, m) ==
    [page |-> "main", title |-> c.title, born |-> c.born, died |-> c.died,
     strayBirth |-> c.strayBirth, strayDeath |-> c.strayDeath,
     headshot |-> m.headshot, akas |-> m.akas, ogurl |-> m.ogurl, dev |-> m.dev]

MainDocs ==
    {MainPage(c, MainMisc0) : c \in MainCore} \cup {MainPage(MainCore0, m) : m \in MainMisc}

BioBornLis ==
    [monthday : {<<>>, << <<"May", " ", "17">> >>, << <<"17", " ", "May">> >>,
                 << <<"February", " ", "29">> >>},
     year : {<<>>, << <<"1956">> >>},
     place : {<<>>, << <<"Peekskill">> >>}]

BioDiedLis ==
    [monthday : {<<>>, << <<"June", " ", "3">> >>, << <<"c.", " ", "June">> >>},
     year : {<<>>, << <<"2020">> >>},
     place : {<<>>},
     notes : {<<>>, << <<" ", "(", " ", "age", " ", "64", ")", " ">> >>, << <<"suddenly">> >>}]

BioNickSpans == {<<>>, << <<" ", "Mad", " ", "Mel">> >>, << <<"Gib">>, <<"bo">> >>}

BioSpouseRows ==
    {[name |-> << <<"Robyn", "\n">> >>, info |-> << <<"(", "1980", ")", "\n", " ", "7", " ", "children">> >>],
     [name |-> <<>>, info |-> << <<"(", "divorced", ")">> >>],
     [name |-> << <<"Oksana">> >>, info |-> <<>>]}

BioMiniBios ==
    {[bio |-> << <<"Born", " ", "in", " ", "Peekskill", " ">>, <<"- IMDb Mini Biography By:">>, <<"Tom">> >>,
      by |-> << <<"Tom">> >>],
     [bio |-> << <<"An", " ", "actor">> >>, by |-> <<>>]}

BioItems == {<<>>, << <<" ", "Blue", "\n", "eyes", " ">> >>}

BioSalaries ==
    {[title |-> << <<"Mad", " ", "Max">> >>, info |-> << <<" ", "-", " ", "$15,000">> >>],
     [title |-> <<>>, info |-> << <<>> >>]}

BioTexts == {<<>>, << <<" ", "Mel", " ", "Gibson", " ">> >>, << <<" ", "\n">> >>}

BioTexts2 == {<<>>, << <<"Mel", " ", "Columcille">> >>, << <<" ">> >>}

\* A page with something in every section.
Bio0 ==
    [page |-> "bio",
     headshot |-> << <<"http://img/2.jpg">> >>,
     nameLi |-> << <<" ", "Mel", " ", "Gibson", " ">> >>,
     overview |-> <<>>,
     nicks |-> << << <<"Mad", " ", "Mel">> >> >>,
     born |-> << [monthday |-> << <<"May", " ", "17">> >>, year |-> << <<"1956">> >>,
                  place |-> << <<"Peekskill">> >>] >>,
     died |-> <<>>,
     height |-> << <<" ", "5'10", " ">> >>,
     minibio |-> << [bio |-> << <<"An", " ", "actor">> >>, by |-> <<>>] >>,
     spouse |-> << [name |-> << <<"Oksana">> >>, info |-> <<>>] >>,
     trademark |-> << << <<"Blue", " ", "eyes">> >> >>,
     trivia |-> <<>>,
     quotes |-> << << <<"Freedom", "\n">> >> >>,
     salary |-> << [title |-> << <<"Mad", " ", "Max">> >>, info |-> << <<" ", "-", " ", "$15,000">> >>] >>]

BioDocs ==
    {[Bio0 EXCEPT !.nameLi = a, !.overview = b] : a \in BioTexts, b \in BioTexts2}
    \cup {[Bio0 EXCEPT !.nicks = x] : x \in SeqsUpTo(BioNickSpans, MaxNodes)}
    \cup {[Bio0 EXCEPT !.born = b, !.died = x] :
             b \in Sections(BioBornLis, [monthday |-> << <<"June", " ", "3">> >>,
                                         year |-> << <<"1066">> >>, place |-> <<>>]),
             x \in Sections(BioDiedLis, [monthday |-> <<>>, year |-> << <<"1999">> >>,
                                         place |-> <<>>, notes |-> <<>>])}
    \cup {[Bio0 EXCEPT !.spouse = x] : x \in SeqsUpTo(BioSpouseRows, MaxNodes)}
    \cup {[Bio0 EXCEPT !.minibio = x, !.headshot = <<>>, !.height = <<>>] :
             x \in SeqsUpTo(BioMiniBios, MaxNodes)}
    \cup {[Bio0 EXCEPT !.trademark = x, !.trivia = x, !.quotes = x] :
             x \in SeqsUpTo(BioItems, MaxNodes)}
    \cup {[Bio0 EXCEPT !.salary = x] : x \in SeqsUpTo(BioSalaries, MaxNodes)}

\* The title of the k-th entry of a list, so that entries differ by position.
Ordinal(k) ==
    CASE k = 1 -> "One"
      [] k = 2 -> "Two"
      [] k = 3 -> "Three"
      [] OTHER -> "More"

\* The k-th filmo-row under a heading; every second row lacks link and year.
FilmoRow(k) ==
    [link |-> IF k % 2 = 1 THEN << <<"/title/tt0133093/">> >> ELSE <<>>,
     title |-> << <<"Film", " ", Ordinal(k)>> >>,
     notes |-> <<>>,
     year |-> IF k % 2 = 1 THEN << <<" ", "1999", "\n">> >> ELSE <<>>,
     status |-> <<>>,
     roles |-> << <<"\n", "Neo", " ">> >>]

FilmoHeads ==
    {[name |-> nm, rows |-> [k \in 1..n |-> FilmoRow(k)]] :
        nm \in {<<>>, << <<"Actor">> >>, << <<"actor">> >>, << <<"Writer">> >>},
        n \in 0..MaxNodes}

FilmoDocs == {[page |-> "filmo", heads |-> h] : h \in SeqsUpTo(FilmoHeads, MaxNodes)}

WorksItems == {<<>>, << <<" ", "Stage", " ", "play", " ">> >>, << <<"TV", " ", "ad">> >>}

WorksDocs == {[page |-> "works", items |-> x] : x \in SeqsUpTo(WorksItems, MaxNodes)}

\* The k-th movie under a genre; bad says what it lacks.
GenreMovie(k, bad) ==
    [link |-> << <<"/title/tt0133093/">> >>,
     title |-> IF bad = "title" THEN <<>> ELSE << <<"Film", " ", Ordinal(k)>> >>,
     info |-> IF bad = "info" THEN <<>> ELSE << <<" ", "(", "1999", ")", " ", "[", "Neo", "]">> >>]

\* n movies, the last of them lacking what bad names.
GenreMovies(n, bad) == [k \in 1..n |-> GenreMovie(k, IF k = n THEN bad ELSE "")]

GenreHeads ==
    {[name |-> << <<nm>> >>, movies |-> GenreMovies(n, bad)] :
        nm \in {"Drama", "Comedy"}, n \in 0..MaxNodes, bad \in {"", "info", "title"}}

GenresDocs == {[page |-> "genres", heads |-> h] : h \in SeqsUpTo(GenreHeads, MaxNodes)}

AwardRows ==
    {[year |-> << <<" ", "1996", "\n">> >>, result |-> << <<"Won">> >>,
      prize |-> << <<"Oscar">> >>,
      movies |-> << [title |-> << <<"Braveheart">> >>, link |-> << <<"/title/tt0133093/">> >>,
                     year |-> << <<"(", "1995", ")">> >>] >>,
      shared |-> << [name |-> << <<"Alan", " ", "Ladd">> >>, link |-> << <<"/name/nm0000154/">> >>] >>,
      category |-> << <<"\n", "Best", " ", "Picture">> >>, award |-> << <<"Academy", " ", "Awards">> >>],
     [year |-> << <<"n/a">> >>, result |-> << <<"Nominated">> >>, prize |-> <<>>,
      movies |-> <<>>, shared |-> <<>>, category |-> <<>>, award |-> <<>>],
     [year |-> <<>>, result |-> <<>>, prize |-> <<>>,
      movies |-> << [title |-> <<>>, link |-> <<>>, year |-> <<>>] >>, shared |-> <<>>,
      category |-> <<>>, award |-> <<>>]}

AwardsDocs == {[page |-> "awards", rows |-> x] : x \in SeqsUpTo(AwardRows, MaxNodes)}

(***************************************************************************)
(* The dispatch table and DOMParserBase.parse                              *)
(***************************************************************************)
\* _OBJECTS: the parsers of this module.
Parsers ==
    {"maindetails_parser", "bio_parser", "filmo_parser", "otherworks_parser",
     "person_awards_parser", "person_genres_parser", "person_keywords_parser"}

RulesOf(p) ==
    CASE p = "maindetails_parser" -> Maindetails_rules
      [] p = "bio_parser" -> Bio_rules
      [] p = "filmo_parser" -> Filmography_rules
      [] p = "otherworks_parser" -> OtherWorks_rules
      [] p = "person_awards_parser" -> PersonAwards_rules
      [] p \in {"person_genres_parser", "person_keywords_parser"} -> PersonGenres_rules

Docs(p) ==
    CASE p = "maindetails_parser" -> MainDocs
      [] p = "bio_parser" -> BioDocs
      [] p = "filmo_parser" -> FilmoDocs
      [] p = "otherworks_parser" -> WorksDocs
      [] p = "person_awards_parser" -> AwardsDocs
      [] p \in {"person_genres_parser", "person_keywords_parser"} -> GenresDocs

postprocess_data(p, data0) ==
    CASE p = "maindetails_parser" -> Maindetails_postprocess_data(data0)
      [] p = "bio_parser" -> Bio_postprocess_data(data0)
      [] p = "filmo_parser" -> Filmography_postprocess_data(data0)
      [] p \in {"otherworks_parser", "person_awards_parser"} -> Base_postprocess_data(data0)
      [] p \in {"person_genres_parser", "person_keywords_parser"} ->
            PersonGenres_postprocess_data(KindOf(p), data0)

\* parse, step 6: the hook's result; an exception of the hook is absorbed and
\* the mapping is returned as the hook left it.
\* parse without the barrier around the hook: its exception reaches the caller.
Propagate(out) ==
    [result |-> IF out.exc THEN None ELSE Map(out.ret), raised |-> out.exc]

Absorb(out) ==
    [result |-> IF out.exc THEN Map(out.arg) ELSE Map(out.ret), raised |-> FALSE]

Init ==
    /\ pc = "idle"
    /\ parser = "maindetails_parser"
    /\ doc = EmptyPage
    /\ data = EmptyDict
    /\ result = None
    /\ raised = FALSE
    /\ self = None
    /\ calls = <<>>
    /\ earlier = None

\* parse(html_string), steps 1-2: the page is turned into a tree.
Start ==
    /\ pc = "idle"
    /\ \E p \in Parsers :
          /\ parser' = p
          /\ \E d \in Docs(p) \cup {EmptyPage} : doc' = d
    /\ pc' = "tree"
    /\ data' = EmptyDict
    /\ result' = None
    /\ raised' = FALSE
    /\ UNCHANGED shared

\* parse, step 3: the root rule set is evaluated; a page that gave no tree
\* gives the empty mapping.
ParseDom ==
    /\ pc = "tree"
    /\ data' = IF doc.page = "empty" THEN EmptyDict ELSE parse_dom(RulesOf(parser), doc)
    /\ pc' = "data"
    /\ UNCHANGED <<parser, doc, result, raised>>
    /\ UNCHANGED shared

\* parse, step 6: postprocess_data reshapes the mapping, and parse returns.
Postprocess ==
    /\ pc = "data"
    /\ LET r == Absorb(postprocess_data(parser, data))
       IN  /\ result' = r.result
           /\ raised' = r.raised
    /\ pc' = "done"
    /\ UNCHANGED <<parser, doc, data>>
    /\ UNCHANGED shared

\* The caller takes the result; the parser is ready for the next page.
Return ==
    /\ pc = "done"
    /\ pc' = "idle"
    /\ parser' = "maindetails_parser"
    /\ doc' = EmptyPage
    /\ data' = EmptyDict
    /\ result' = None
    /\ raised' = FALSE
    /\ UNCHANGED shared

Next == Start \/ ParseDom \/ Postprocess \/ Return

Spec == Init /\ [][Next]_vars

(***************************************************************************)
(* One parser instance, call after call and call beside call               *)
(*                                                                         *)
(* The hooks are followed statement by statement.  A step takes the        *)
(* instance and the frame of the call (the mapping under way, the place in *)
(* the hook, the local variables) and gives both back as the statement     *)
(* leaves them, with exc telling whether it raised.                        *)
(***************************************************************************)
\* The callers that may be inside parse at the same time.
Callers == {1, 2}

\* An entry of _OBJECTS instantiated: the class's rule table, its kind, and
\* the attributes set on the instance after construction (none).
Instance(p) ==
    [name |-> p, kind |-> KindOf(p), rules |-> RulesOf(p), attrs |-> EmptyDict]

\* The frame of a caller that is not inside parse.
Frame0 ==
    [pc |-> "idle", doc |-> EmptyPage, data |-> EmptyDict, at |-> "",
     loc |-> EmptyDict, ret |-> EmptyDict, result |-> None, overlap |-> FALSE]

\* The statement ends, and the hook goes on at the place at.
Go(inst, fr, at, d, loc) ==
    [self |-> inst, fr |-> [fr EXCEPT !.at = at, !.data = d, !.loc = loc], exc |-> FALSE]

\* return value
Ret(inst, fr, d, value) ==
    [self |-> inst, fr |-> [fr EXCEPT !.at = "end", !.data = d, !.ret = value],
     exc |-> FALSE]

\* The statement raises.
Raise(inst, fr, d, loc) ==
    [self |-> inst, fr |-> [fr EXCEPT !.data = d, !.loc = loc], exc |-> TRUE]

\* DOMHTMLMaindetailsParser.postprocess_data
Maindetails_step(inst, fr) ==
    LET d == fr.data
    IN  CASE fr.at = "start" ->
               Go(inst, fr, "birth date",
                  IF "name" \in DOMAIN d /\ IsMap(d["name"])
                  THEN Update(Del(d, "name"), d["name"].m) ELSE d,
                  fr.loc)
          [] fr.at = "birth date" ->
               Go(inst, fr, "death date",
                  IF fr.at \in DOMAIN d /\ ~Truthy(d[fr.at]) THEN Del(d, fr.at) ELSE d,
                  fr.loc)
          [] fr.at = "death date" ->
               LET d1 == IF fr.at \in DOMAIN d /\ ~Truthy(d[fr.at]) THEN Del(d, fr.at) ELSE d
               IN  Ret(inst, fr, d1, d1)

\* DOMHTMLBioParser.postprocess_data with monthday, year and the_date kept
\* as attributes of the parser in place of local variables.
Bio_step_attrs(inst, fr) ==
    LET d == fr.data
        l == fr.loc
        a == inst.attrs
        With(x) == [inst EXCEPT !.attrs = x @@ a]
    IN  CASE fr.at = "start" ->
               Go(inst, fr, "pop", d, [event |-> "birth", info |-> EmptyDict])
          [] fr.at = "pop" ->
               LET key == l.event \o " info"
               IN  Go(With("monthday" :> <<>> @@ "year" :> <<>> @@ "the_date" :> <<>>),
                      fr, "monthday", Del(d, key),
                      [l EXCEPT !.info = IF key \in DOMAIN d THEN d[key].m ELSE EmptyDict])
          [] fr.at = "monthday" ->
               IF "monthday" \in DOMAIN l.info
               THEN LET md == strptime_monthday(l.info["monthday"])
                        l1 == [l EXCEPT !.info = Del(l.info, "monthday")]
                    IN  IF md.t = "err" THEN Raise(inst, fr, d, l1)
                        ELSE Go(With("monthday" :> md.s), fr, "year", d, l1)
               ELSE Go(inst, fr, "year", d, l)
          [] fr.at = "year" ->
               IF "year" \in DOMAIN l.info
               THEN Go(With("year" :> l.info["year"].s), fr, "date", d,
                       [l EXCEPT !.info = Del(l.info, "year")])
               ELSE Go(inst, fr, "date", d, l)
          [] fr.at = "date" ->
               LET the_date ==
                       IF a["year"] # <<>> /\ a["monthday"] # <<>>
                       THEN a["year"] \o <<"-">> \o a["monthday"]
                       ELSE IF a["year"] # <<>> THEN a["year"]
                       ELSE IF a["monthday"] # <<>> THEN a["monthday"]
                       ELSE <<>>
               IN  Go(With("the_date" :> the_date), fr, "update",
                      IF the_date # <<>> THEN ((l.event \o " date") :> Str(the_date)) @@ d
                      ELSE d,
                      l)
          [] fr.at = "update" ->
               LET d1 == Update(d, l.info)
                   d2 == IF "death notes" \in DOMAIN l.info
                         THEN ("death notes" :> Str(Strip(l.info["death notes"].s))) @@ d1
                         ELSE d1
               IN  IF l.event = "birth"
                   THEN Go(inst, fr, "pop", d2, [l EXCEPT !.event = "death"])
                   ELSE Go(inst, fr, "nick", d2, l)
          [] fr.at = "nick" ->
               LET d1 == IF "nick names" \in DOMAIN d /\ IsStr(d["nick names"])
                         THEN ("nick names" :> List(<<d["nick names"]>>)) @@ d
                         ELSE d
               IN  Ret(inst, fr, d1, d1)

\* DOMHTMLBioParser.postprocess_data: the head of the loop, then one place
\* for each statement of its body, then the test of 'nick names'.
Bio_step(inst, fr) ==
    LET d == fr.data
        l == fr.loc
    IN  CASE fr.at = "start" ->
               Go(inst, fr, "pop", d,
                  [event |-> "birth", info |-> EmptyDict, monthday |-> <<>>,
                   year |-> <<>>, the_date |-> <<>>])
          [] fr.at = "pop" ->
               LET key == l.event \o " info"
               IN  Go(inst, fr, "monthday", Del(d, key),
                      [l EXCEPT !.info = IF key \in DOMAIN d THEN d[key].m ELSE EmptyDict,
                                !.monthday = <<>>, !.year = <<>>, !.the_date = <<>>])
          [] fr.at = "monthday" ->
               IF "monthday" \in DOMAIN l.info
               THEN LET md == strptime_monthday(l.info["monthday"])
                        l1 == [l EXCEPT !.info = Del(l.info, "monthday")]
                    IN  IF md.t = "err" THEN Raise(inst, fr, d, l1)
                        ELSE Go(inst, fr, "year", d, [l1 EXCEPT !.monthday = md.s])
               ELSE Go(inst, fr, "year", d, l)
          [] fr.at = "year" ->
               IF "year" \in DOMAIN l.info
               THEN Go(inst, fr, "date", d,
                       [l EXCEPT !.year = l.info["year"].s, !.info = Del(l.info, "year")])
               ELSE Go(inst, fr, "date", d, l)
          [] fr.at = "date" ->
               LET the_date ==
                       IF l.year # <<>> /\ l.monthday # <<>>
                       THEN l.year \o <<"-">> \o l.monthday
                       ELSE IF l.year # <<>> THEN l.year
                       ELSE IF l.monthday # <<>> THEN l.monthday
                       ELSE <<>>
               IN  Go(inst, fr, "update",
                      IF the_date # <<>> THEN ((l.event \o " date") :> Str(the_date)) @@ d
                      ELSE d,
                      [l EXCEPT !.the_date = the_date])
          [] fr.at = "update" ->
               LET d1 == Update(d, l.info)
                   d2 == IF "death notes" \in DOMAIN l.info
                         THEN ("death notes" :> Str(Strip(l.info["death notes"].s))) @@ d1
                         ELSE d1
               IN  IF l.event = "birth"
                   THEN Go(inst, fr, "pop", d2, [l EXCEPT !.event = "death"])
                   ELSE Go(inst, fr, "nick", d2, l)
          [] fr.at = "nick" ->
               LET d1 == IF "nick names" \in DOMAIN d /\ IsStr(d["nick names"])
                         THEN ("nick names" :> List(<<d["nick names"]>>)) @@ d
                         ELSE d
               IN  Ret(inst, fr, d1, d1)

\* DOMHTMLFilmographyParser.postprocess_data with filmo an attribute of the
\* parser, created once, in place of the local variable set to {} by each call.
Filmography_step_attr(inst, fr) ==
    LET d == fr.data
        l == fr.loc
        filmo == IF "filmo" \in DOMAIN inst.attrs THEN inst.attrs["filmo"] ELSE EmptyDict
    IN  CASE fr.at = "start" ->
               Go([inst EXCEPT !.attrs = ("filmo" :> filmo) @@ inst.attrs], fr, "for", d,
                  [jobs |-> Or(Get(d, "filmography"), List(<<>>)).xs, n |-> 0])
          [] fr.at = "for" ->
               IF l.n < Len(l.jobs)
               THEN LET job == l.jobs[l.n + 1]
                    IN  Go([inst EXCEPT !.attrs =
                               ("filmo" :> IF ~IsMap(job) \/ ~Truthy(job) THEN filmo
                                           ELSE Update(filmo, job.m)) @@ inst.attrs],
                           fr, "for", d, [l EXCEPT !.n = l.n + 1])
               ELSE Go(inst, fr, "if", d, l)
          [] fr.at = "if" ->
               LET d1 == IF DOMAIN filmo # {}
                         THEN ("filmography" :> Map(filmo)) @@ d ELSE d
               IN  Ret(inst, fr, d1, d1)

\* DOMHTMLFilmographyParser.postprocess_data: filmo = {} and the jobs to go
\* through, one round of the loop for each job, then the test of filmo.
Filmography_step(inst, fr) ==
    LET d == fr.data
        l == fr.loc
    IN  CASE fr.at = "start" ->
               Go(inst, fr, "for", d,
                  [filmo |-> EmptyDict, jobs |-> Or(Get(d, "filmography"), List(<<>>)).xs,
                   n |-> 0])
          [] fr.at = "for" ->
               IF l.n < Len(l.jobs)
               THEN LET job == l.jobs[l.n + 1]
                    IN  Go(inst, fr, "for", d,
                           [l EXCEPT !.n = l.n + 1,
                                     !.filmo = IF ~IsMap(job) \/ ~Truthy(job) THEN l.filmo
                                               ELSE Update(l.filmo, job.m)])
               ELSE Go(inst, fr, "if", d, l)
          [] fr.at = "if" ->
               LET d1 == IF DOMAIN l.filmo # {}
                         THEN ("filmography" :> Map(l.filmo)) @@ d ELSE d
               IN  Ret(inst, fr, d1, d1)

\* DOMHTMLPersonGenresParser.postprocess_data: kind is read from the instance.
PersonGenres_step(inst, fr) ==
    IF DOMAIN fr.data = {} THEN Ret(inst, fr, fr.data, EmptyDict)
    ELSE Ret(inst, fr, fr.data, inst.kind :> Map(fr.data))

\* DOMParserBase.postprocess_data
Base_step(inst, fr) == Ret(inst, fr, fr.data, fr.data)

\* The next statement of self.postprocess_data(data).
hook_step(inst, fr) ==
    CASE inst.name = "maindetails_parser" -> Maindetails_step(inst, fr)
      [] inst.name = "bio_parser" -> Bio_step(inst, fr)
      [] inst.name = "filmo_parser" -> Filmography_step(inst, fr)
      [] inst.name \in {"otherworks_parser", "person_awards_parser"} -> Base_step(inst, fr)
      [] inst.name \in {"person_genres_parser", "person_keywords_parser"} ->
            PersonGenres_step(inst, fr)

\* The pages the callers of one instance hand to it.
BornLi(md, yr) == [monthday |-> md, year |-> yr, place |-> << <<"Peekskill">> >>]

DiedLi ==
    [monthday |-> << <<"June", " ", "3">> >>, year |-> << <<"2020">> >>, place |-> <<>>,
     notes |-> << <<" ", "(", " ", "age", " ", "64", ")", " ">> >>]

FilmoHead(nm, n) == [name |-> << <<nm>> >>, rows |-> [k \in 1..n |-> FilmoRow(k)]]

GenreHead(nm, n) == [name |-> << <<nm>> >>, movies |-> GenreMovies(n, "")]

PagesOf(p) ==
    {EmptyPage} \cup
    CASE p = "maindetails_parser" ->
            {MainPage([MainCore0 EXCEPT !.born = b, !.title = t], MainMisc0) :
                b \in {<<>>, << [dates |-> << <<"1960-05-17">> >>, places |-> <<>>] >>,
                       << [dates |-> << <<>> >>, places |-> << <<"Peekskill">> >>] >>},
                t \in {<<>>, << <<"Mel">> >>}}
      [] p = "bio_parser" ->
            {[Bio0 EXCEPT !.born = << b >>, !.died = x] :
                b \in {BornLi(<< <<"May", " ", "17">> >>, << <<"1956">> >>),
                       BornLi(<< <<"February", " ", "29">> >>, << <<"1956">> >>),
                       BornLi(<<>>, << <<"1960">> >>),
                       BornLi(<< <<"May", " ", "17">> >>, <<>>)},
                x \in {<<>>, << DiedLi >>}}
      [] p = "filmo_parser" ->
            {[page |-> "filmo", heads |-> h] :
                h \in {<< FilmoHead("Actor", 2) >>, << FilmoHead("Writer", 1) >>,
                       << FilmoHead("Actor", 1), FilmoHead("Director", 2) >>}}
      [] p = "otherworks_parser" ->
            {[page |-> "works", items |-> x] : x \in SeqsUpTo(WorksItems, 1)}
      [] p = "person_awards_parser" ->
            {[page |-> "awards", rows |-> x] : x \in SeqsUpTo(AwardRows, 1)}
      [] p \in {"person_genres_parser", "person_keywords_parser"} ->
            {[page |-> "genres", heads |-> h] :
                h \in {<< GenreHead("Drama", 2) >>,
                       << GenreHead("Comedy", 1), GenreHead("Drama", 1) >>}}

\* The variables of the specification of one call at a time; the calls on a
\* shared instance leave them alone.
single == <<pc, parser, doc, data, result, raised>>

InitShared ==
    /\ pc = "idle"
    /\ parser = "maindetails_parser"
    /\ doc = EmptyPage
    /\ data = EmptyDict
    /\ result = None
    /\ raised = FALSE
    /\ \E p \in Parsers : self = Instance(p)
    /\ calls = [c \in Callers |-> Frame0]
    /\ earlier = None

\* Caller c calls self.parse(page).
Call(c) ==
    /\ calls[c].pc = "idle"
    /\ \E d \in PagesOf(self.name) :
          calls' = [calls EXCEPT ![c] = [Frame0 EXCEPT !.pc = "tree", !.doc = d]]
    /\ UNCHANGED <<self, earlier>>
    /\ UNCHANGED single

\* parse, steps 1-3, for caller c: a new mapping from the rules of the instance.
Tree(c) ==
    /\ calls[c].pc = "tree"
    /\ calls' = [calls EXCEPT
                    ![c].data = IF calls[c].doc.page = "empty" THEN EmptyDict
                                ELSE parse_dom(self.rules, calls[c].doc),
                    ![c].pc = "hook",
                    ![c].at = "start"]
    /\ UNCHANGED <<self, earlier>>
    /\ UNCHANGED single

\* Another caller is between two statements of the hook.
Beside(c) == \E o \in Callers \ {c} : calls[o].pc = "hook" /\ calls[o].at # "start"

\* parse, step 6, for caller c: one statement of the hook; after the last one,
\* or after one that raised, parse has its result.
Hook(c) ==
    /\ calls[c].pc = "hook"
    /\ LET s == hook_step(self, calls[c])
           over == calls[c].overlap \/ Beside(c)
       IN  /\ self' = s.self
           /\ calls' =
                 [calls EXCEPT ![c] =
                     IF s.exc \/ s.fr.at = "end"
                     THEN [s.fr EXCEPT
                              !.pc = "done", !.at = "", !.loc = EmptyDict,
                              !.ret = EmptyDict, !.overlap = over,
                              !.result = Absorb(Outcome(s.fr.data, s.exc, s.fr.ret)).result]
                     ELSE [s.fr EXCEPT !.overlap = over]]
    /\ UNCHANGED earlier
    /\ UNCHANGED single

\* The call of caller c is the one later calls are compared with.
Remember(c) ==
    /\ calls[c].pc = "done"
    /\ earlier' = [doc |-> calls[c].doc, result |-> calls[c].result, between |-> FALSE]
    /\ UNCHANGED <<self, calls>>
    /\ UNCHANGED single

\* Caller c takes the result; a call for another page than the remembered
\* one has come between.
Finish(c) ==
    /\ calls[c].pc = "done"
    /\ calls' = [calls EXCEPT ![c] = Frame0]
    /\ earlier' = IF earlier = None THEN None
                  ELSE [earlier EXCEPT
                           !.between = earlier.between \/ earlier.doc # calls[c].doc]
    /\ UNCHANGED self
    /\ UNCHANGED single

\* One caller: every call returns before the next begins.
NextSerial == Call(1) \/ Tree(1) \/ Hook(1) \/ Remember(1) \/ Finish(1)

SpecSerial == InitShared /\ [][NextSerial]_vars

\* Several callers: the steps of their calls in any order.
NextShared == \E c \in Callers : Call(c) \/ Tree(c) \/ Hook(c) \/ Finish(c)

SpecShared == InitShared /\ [][NextShared]_vars

(***************************************************************************)
(* Properties                                                              *)
(***************************************************************************)
\* parse has returned.
Done == pc = "done"

\* parse has returned for a page a tree was built from.
DonePage(p) == pc = "done" /\ parser \in p /\ doc.page # "empty"

\* What parse returns for page d with the rule table rules.
ParseWith(p, rules, d) == Absorb(postprocess_data(p, parse_dom(rules, d))).result

\* The rule table without its n-th rule.
Without(rules, n) == SubSeq(rules, 1, n - 1) \o SubSeq(rules, n + 1, Len(rules))

\* The transform of the n-th top-level rule raises on page d.
TransformFails(rules, d, n) == RuleValue(d, Root, rules[n]).t = "err"

SpouseRowFails(d) == \E i \in 1..Len(d.spouse) : d.spouse[i].name = <<>>

\* An award row whose year is no numeral, on which int() raises.
AwardRowFails(d) ==
    \E i \in 1..Len(d.rows) :
        Strip(Join(d.rows[i].year)) \notin {<<>>, <<"1996">>, <<"2004">>}

\* A genre heading with a movie that lacks its title or the text after it, on
\* which the build_movie transform raises.
GenreFails(d, i) ==
    \E k \in 1..Len(d.heads[i].movies) :
        d.heads[i].movies[k].title = <<>> \/ d.heads[i].movies[k].info = <<>>

Missing(rules, d, n) ==
    LET ex == rules[n].extractor
    IN  /\ rules[n].foreach = ""
        /\ \/ ex.k = "path" /\ Values(d, Root, ex.q) = <<>>
           \/ ex.k = "rules" /\ ex.foreach = "" /\ ex.section # ""
                             /\ Nodes(d, Root, ex.section) = <<>>

\* No key of the mapping holds None, an empty string or an empty mapping.
NoPlaceholder(m) == \A k \in DOMAIN m : ~IsEmptyValue(m[k])

DeathKeys == {"death date", "death place", "death notes", "death info"}

\* C3: a section that is missing from the page leaves no key in the result:
\* no key holds None, '' or {} (one level down as well), a rule that selects
\* nothing adds no key, and without a "Died:" section the maindetails and the
\* biography result have no 'death date', 'death place', 'death notes' and no
\* 'death info'.
C3_MissingSectionAbsent ==
    /\ Done => /\ NoPlaceholder(result.m)
               /\ \A k \in DOMAIN result.m :
                      IsMap(result.m[k]) => NoPlaceholder(result.m[k].m)
    /\ DonePage(Parsers) =>
          \A n \in 1..Len(RulesOf(parser)) :
              (\A j \in 1..Len(RulesOf(parser)) :
                  RulesOf(parser)[j].key = RulesOf(parser)[n].key
                      => Missing(RulesOf(parser), doc, j))
                  => RulesOf(parser)[n].key \notin DOMAIN data
    /\ DonePage({"maindetails_parser", "bio_parser"}) /\ doc.died = <<>> =>
          DOMAIN result.m \cap DeathKeys = {}

\* C3 witness: a biography page with a birth section and no death section.
C3_Witness ==
    /\ DonePage({"bio_parser"})
    /\ doc.died = <<>>
    /\ doc.born # <<>>
    /\ "birth date" \in DOMAIN result.m

\* C4: of the two 'birth name' rules of the biography parser the later one
\* (the overview table) gives the value when both give a non-empty one, and
\* when only one gives a non-empty value that value is kept.
C4_LastWriteWins ==
    DonePage({"bio_parser"}) =>
        LET first == Strip(Join(doc.nameLi))
            second == Strip(Join(doc.overview))
        IN  /\ second # <<>> => Get(result.m, "birth name") = Str(second)
            /\ second = <<>> /\ first # <<>> => Get(result.m, "birth name") = Str(first)
            /\ second = <<>> /\ first = <<>> => "birth name" \notin DOMAIN result.m

\* C4 witness: both rules give a non-empty value, and the values differ.
C4_Witness ==
    /\ DonePage({"bio_parser"})
    /\ Strip(Join(doc.nameLi)) # <<>>
    /\ Strip(Join(doc.overview)) # <<>>
    /\ Strip(Join(doc.nameLi)) # Strip(Join(doc.overview))

\* C5: the foreach rule set of 'other works' gives a sequence of exactly one
\* element per matched node, in document order, each the transform of that
\* node's mapping; with no node the key holds the empty sequence.  The same
\* count holds of every top-level foreach rule whose transform does not fail.
C5_ForeachCardinality ==
    /\ DonePage({"otherworks_parser"}) =>
          /\ "other works" \in DOMAIN result.m
          /\ IsList(result.m["other works"])
          /\ Len(result.m["other works"].xs) = Len(doc.items)
          /\ \A i \in 1..Len(doc.items) :
                 result.m["other works"].xs[i] = Str(Strip(Join(doc.items[i])))
    /\ DonePage(Parsers) =>
          \A n \in 1..Len(RulesOf(parser)) :
              LET r == RulesOf(parser)[n]
              IN  r.extractor.k = "rules" /\ r.extractor.foreach # ""
                      /\ ~TransformFails(RulesOf(parser), doc, n)
                  => /\ r.key \in DOMAIN data
                     /\ IsList(data[r.key])
                     /\ Len(data[r.key].xs) = Len(Nodes(doc, Root, r.extractor.foreach))

\* C5 witness: an other-works page with as many items as a page may have.
C5_Witness == DonePage({"otherworks_parser"}) /\ Len(doc.items) = MaxNodes

\* The string a scalar query gives for matches sel, None without a match.
Joined(sel) == IF sel = <<>> THEN None ELSE Str(Join(sel))

\* The value a rule leaves in a mapping: nothing for an empty string.
Kept(v) == IF IsEmptyValue(v) THEN None ELSE v

\* C6: the fields of a section-scoped rule set come from the sub-tree of the
\* section (its first match) alone: 'birth date', 'birth place', 'death date',
\* 'death place' of the maindetails parser are the values inside the "Born:"
\* and "Died:" div, whatever time elements stand elsewhere in the page, and
\* without the div there is no such field; the same for the biography parser.
C6_SectionScoping ==
    /\ DonePage({"maindetails_parser"}) =>
          LET birth == Get(result.m, "birth info")
              death == Get(result.m, "death info")
          IN  /\ "birth date" \notin DOMAIN result.m
              /\ "death date" \notin DOMAIN result.m
              /\ doc.born = <<>> => birth = None
              /\ doc.died = <<>> => death = None
              /\ IsMap(birth) =>
                    /\ Get(birth.m, "birth date") = Kept(Joined(doc.born[1].dates))
                    /\ Get(birth.m, "birth place") = Kept(Joined(doc.born[1].places))
              /\ IsMap(death) =>
                    /\ Get(death.m, "death date") = Kept(Joined(doc.died[1].dates))
                    /\ Get(death.m, "death place") = Kept(Joined(doc.died[1].places))
    /\ DonePage({"bio_parser"}) =>
          LET birth == Get(data, "birth info")
              death == Get(data, "death info")
          IN  /\ doc.born = <<>> => birth = None
              /\ doc.died = <<>> => death = None
              /\ IsMap(birth) =>
                    /\ Get(birth.m, "year") = Kept(Joined(doc.born[1].year))
                    /\ Get(birth.m, "monthday") = Kept(Joined(doc.born[1].monthday))
              /\ IsMap(death) =>
                    /\ Get(death.m, "year") = Kept(Joined(doc.died[1].year))
                    /\ Get(death.m, "monthday") = Kept(Joined(doc.died[1].monthday))

\* C6 witness: a birthDate time element outside the "Born:" div, another
\* inside it, and the one inside is the 'birth date'.
C6_Witness ==
    /\ DonePage({"maindetails_parser"})
    /\ doc.strayBirth # <<>>
    /\ doc.born # <<>>
    /\ doc.born[1].dates = << <<"1960-05-17">> >>
    /\ result.m["birth info"].m["birth date"] = Str(<<"1960-05-17">>)

\* The name of the i-th job heading.
JobName(d, i) == Join(d.heads[i].name)

\* The 'filmography' of the result is a mapping of exactly the lower-cased
\* job names, the i-th name holding the n_i entries of its heading in
\* document order.
FilmographyByJob ==
    LET f == Get(result.m, "filmography")
    IN  /\ IsMap(f)
        /\ DOMAIN f.m = {KeyOf(Lower(JobName(doc, i))) : i \in 1..Len(doc.heads)}
        /\ Cardinality(DOMAIN f.m) = Len(doc.heads)
        /\ \A i \in 1..Len(doc.heads) :
              LET films == f.m[KeyOf(Lower(JobName(doc, i)))]
              IN  /\ IsList(films)
                  /\ Len(films.xs) = Len(doc.heads[i].rows)
                  /\ \A k \in 1..Len(films.xs) :
                         films.xs[k].m["title"] = Str(<<"Film", " ", Ordinal(k)>>)

\* A page of k >= 1 job headings that all have a name.
NamedJobs(d) == d.heads # <<>> /\ \A i \in 1..Len(d.heads) : JobName(d, i) # <<>>

\* C7 as stated: with k >= 1 job headings of distinct names the 'filmography'
\* is a mapping of exactly k keys, the lower-cased names, each holding the
\* entries of its heading in document order.
C7_Original ==
    DonePage({"filmo_parser"}) /\ NamedJobs(doc)
        /\ (\A i, j \in 1..Len(doc.heads) : i # j => JobName(doc, i) # JobName(doc, j))
    => FilmographyByJob

\* C7 amended: the same, for job names that are distinct after lower-casing.
C7_FilmographyByJob ==
    DonePage({"filmo_parser"}) /\ NamedJobs(doc)
        /\ (\A i, j \in 1..Len(doc.heads) :
                i # j => Lower(JobName(doc, i)) # Lower(JobName(doc, j)))
    => FilmographyByJob

\* C7 witness: two job headings, the first with the most entries a heading
\* may have and the second with fewer.
C7_Witness ==
    /\ DonePage({"filmo_parser"})
    /\ Len(doc.heads) = 2
    /\ JobName(doc, 1) = <<"Actor">>
    /\ JobName(doc, 2) = <<"Writer">>
    /\ Len(doc.heads[1].rows) = MaxNodes
    /\ Len(doc.heads[2].rows) = MaxNodes - 1
    /\ DOMAIN result.m["filmography"].m = {"actor", "writer"}

\* C8: 'nick names', when the biography result has it, is a sequence of
\* strings with exactly one element per nick-name entry of the page, never a
\* single string.
C8_NickNamesSequence ==
    DonePage({"bio_parser"}) /\ "nick names" \in DOMAIN result.m =>
        LET nicks == result.m["nick names"]
        IN  /\ IsList(nicks)
            /\ Len(nicks.xs) = Len(doc.nicks)
            /\ \A i \in 1..Len(doc.nicks) : nicks.xs[i] = Str(Strip(Join(doc.nicks[i])))

\* C8 witness: a page with two nick-name entries.
C8_Witness ==
    /\ DonePage({"bio_parser"})
    /\ Len(doc.nicks) = 2
    /\ doc.nicks[1] # <<>>
    /\ doc.nicks[2] # <<>>
    /\ Len(result.m["nick names"].xs) = 2

\* C9 as stated: with one time element of itemprop "birthDate" and a
\* non-empty datetime attribute in the "Born:" div, the mapping parse returns
\* has the key 'birth date' with that attribute as its value.
C9_BirthDateInResult ==
    DonePage({"maindetails_parser"}) /\ Len(doc.born) = 1
        /\ Len(doc.born[1].dates) = 1 /\ doc.born[1].dates[1] # <<>>
    => Get(result.m, "birth date") = Str(doc.born[1].dates[1])

Alone(p, d) ==
    IF d.page = "empty" THEN Absorb(postprocess_data(p, EmptyDict)).result
    ELSE ParseWith(p, RulesOf(p), d)

WithHook ==
    {"maindetails_parser", "filmo_parser", "bio_parser", "person_genres_parser",
     "person_keywords_parser"}

\* The hooks that end with 'return data'.
InPlace == {"maindetails_parser", "filmo_parser", "bio_parser"}

IsMonthDay(s) ==
    /\ Len(s) >= 3
    /\ MonthNumber(s[1]) # ""
    /\ \A i \in 2..(Len(s) - 1) : IsSpace(s[i])
    /\ DayNumber(s[Len(s)]) # ""

\* 'MM-DD' for a month and a day.
MonthDay(s) == <<MonthNumber(s[1]), "-", DayNumber(s[Len(s)])>>

\* The date the event's own info stands for: 'YEAR-MM-DD', the year alone,
\* 'MM-DD' alone, or nothing.
DateOf(info) ==
    LET year == IF "year" \in DOMAIN info THEN info["year"].s ELSE <<>>
        monthday == IF "monthday" \in DOMAIN info THEN MonthDay(info["monthday"].s)
                    ELSE <<>>
    IN  IF year # <<>> /\ monthday # <<>> THEN year \o <<"-">> \o monthday
        ELSE IF year # <<>> THEN year
        ELSE monthday

\* C14: for the biography parser and each of birth and death, the result holds
\* none of '<event> info', 'monthday', 'year', and '<event> date' is the date
\* the event's own info stands for ('YEAR-MM-DD', the year alone, 'MM-DD'
\* alone), absent when the info has neither a year nor a month and day.
C14_DateAssembly ==
    DonePage({"bio_parser"}) =>
        \A event \in {"birth", "death"} :
            LET key == event \o " info"
                date == event \o " date"
                info == IF key \in DOMAIN data THEN data[key].m ELSE EmptyDict
                r == result.m
            IN  /\ {key, "monthday", "year"} \cap DOMAIN r = {}
                /\ ("monthday" \in DOMAIN info => IsMonthDay(info["monthday"].s)) =>
                       IF DateOf(info) = <<>> THEN date \notin DOMAIN r
                       ELSE date \in DOMAIN r /\ r[date] = Str(DateOf(info))
====
